---- MODULE Spec2Model ----
(***************************************************************************)
(* ASCIIArtGenerator (src/acii.js): the pixel-to-glyph rendering pipeline. *)
(*                                                                         *)
(* Numbers.  JavaScript numbers that are fractions (contrastFactor,        *)
(* brightnessFactor, ditherAmount, the adjusted brightness) are held as    *)
(* integers counting 1/Unit, Unit = 2^FracBits.  Every fraction the model  *)
(* draws is dyadic, so the double arithmetic of the code is exact on it    *)
(* and the integer arithmetic below computes the same values.              *)
(* A Uint8ClampedArray is a sequence of integers 0..255; the model keeps   *)
(* the code's 0-based indices and adds 1 where it subscripts a sequence.   *)
(* An optional property of the options bag is <<>> when omitted and <<v>>  *)
(* when given.                                                             *)
(***************************************************************************)
EXTENDS Integers, Sequences, FiniteSets, TLC

VARIABLES
    options,    \* the options bag handed to the constructor
    gen,        \* the ASCIIArtGenerator object (this.*)
    image,      \* the source image: [width, height] (its natural size)
    canvas,     \* the canvas: [width, height, data], data the RGBA bytes
    pixels,     \* the array a filter works on: pixels of the dithering, original of the unsharp mask
    data,       \* its working copy inside applyFloydSteinbergDithering
    pos,        \* raster index of the next pixel of the dithering loops
    blurred,    \* what applyGaussianBlur returned to applyUnsharpMask
    result,     \* what convertImageToASCII returned
    value,      \* the brightness handed to applyContrastAndBrightness
    adjusted,   \* what applyContrastAndBrightness returned (in 1/Unit)
    charIndex,  \* the character index computed from it
    promise,    \* the promise convertImageFromURL returned
    page,       \* the demo page: its file reads, preview, currentImage, output
    pc          \* where the run is

vars == << options, gen, image, canvas, pixels, data, pos, blurred, result,
           value, adjusted, charIndex, promise, page, pc >>

----------------------------------------------------------------------------
(* Bounds of the model *)

\* fractions are multiples of 1/2^FracBits
FracBits == 2

Unit == 2 ^ FracBits

Half == Unit \div 2

Quarter == Unit \div 4

----------------------------------------------------------------------------
(* Arithmetic of the JavaScript runtime *)

Min(a, b) == IF a < b THEN a ELSE b

Max(a, b) == IF a > b THEN a ELSE b

\* Math.max(lo, Math.min(hi, v))
Clamp(lo, hi, v) == Max(lo, Min(hi, v))

\* Storing the number num/den (den > 0) into a Uint8ClampedArray element:
\* clamped to 0..255 and rounded to the nearest integer, ties to even.
ToUint8Clamp(num, den) ==
    LET c == Clamp(0, 255 * den, num)
        q == c \div den
        r == c % den
    IN  IF 2 * r < den THEN q
        ELSE IF 2 * r > den THEN q + 1
        ELSE IF q % 2 = 0 THEN q ELSE q + 1

\* pixels[i] for a 0-based index i
At(arr, i) == arr[i + 1]

----------------------------------------------------------------------------
(* The constructor *)

DefaultCharSet == << "@", "%", "#", "*", "+", "=", "-", ":", ".", " " >>

DetailedCharSet ==
    << "$", "@", "B", "%", "8", "&", "W", "M", "#", "*",
       "o", "a", "h", "k", "b", "d", "p", "q", "w", "m",
       "Z", "O", "0", "Q", "L", "C", "J", "U", "Y", "X",
       "z", "c", "v", "u", "n", "x", "r", "j", "f", "t",
       "/", "\\", "|", "(", ")", "1", "{", "}", "[", "]",
       "?", "-", "_", "+", "~", "<", ">", "i", "!", "l",
       "I", ";", ":", ",", "\"", "^", "`", "'", ".", " " >>

DefaultWidth == 100

OptionNames ==
    { "charSet", "width", "invertBrightness", "colorMode", "contrastFactor",
      "brightnessFactor", "useDetailedCharSet", "applyDithering",
      "applySharpening", "ditherAmount" }

Given(o, k) == o[k] # << >>

\* options.k || d for a string: the empty string is falsy
OrString(o, k, d) == IF Given(o, k) /\ Len(o[k][1]) > 0 THEN o[k][1] ELSE d

\* options.k || d for a number: 0 is falsy
OrNumber(o, k, d) == IF Given(o, k) /\ o[k][1] # 0 THEN o[k][1] ELSE d

\* options.k || false
OrFalse(o, k) == Given(o, k) /\ o[k][1]

constructor(o) ==
    [ charSet            |-> OrString(o, "charSet", DefaultCharSet),
      detailedCharSet    |-> DetailedCharSet,
      width              |-> OrNumber(o, "width", DefaultWidth),
      invertBrightness   |-> OrFalse(o, "invertBrightness"),
      colorMode          |-> OrFalse(o, "colorMode"),
      contrastFactor     |-> OrNumber(o, "contrastFactor", Unit),
      brightnessFactor   |-> OrNumber(o, "brightnessFactor", 0),
      useDetailedCharSet |-> OrFalse(o, "useDetailedCharSet"),
      applyDithering     |-> OrFalse(o, "applyDithering"),
      applySharpening    |-> OrFalse(o, "applySharpening"),
      ditherAmount       |-> OrNumber(o, "ditherAmount", Half) ]

\* an options bag with nothing given
NoOptions == [k \in OptionNames |-> << >>]

\* the bag o with the properties of the record given (each <<v>>) set
With(o, given) ==
    [k \in OptionNames |-> IF k \in DOMAIN given THEN given[k] ELSE o[k]]

----------------------------------------------------------------------------
(* Tone mapping and glyph selection: the body of the pixel loop *)

\* a variant that scales the value itself, not its distance from 128
applyContrastAroundZero(g, v) ==
    Clamp(0, 255 * Unit, v * g.contrastFactor + g.brightnessFactor * 255)

\* applyContrastAndBrightness: the result in 1/Unit
applyContrastAndBrightness(g, v) ==
    LET contrasted == (v - 128) * g.contrastFactor + 128 * Unit
        brightened == contrasted + g.brightnessFactor * 255
    IN  Clamp(0, 255 * Unit, brightened)

activeCharSet(g) ==
    IF g.useDetailedCharSet THEN g.detailedCharSet ELSE g.charSet

\* a variant with the two branches exchanged
RawCharIndexSwapped(g, brightness) ==
    LET len == Len(activeCharSet(g))
    IN  IF g.invertBrightness
        THEN ((255 * Unit - brightness) * len) \div (256 * Unit)
        ELSE (brightness * len) \div (256 * Unit)

\* a variant that subtracts from 256
RawCharIndexFrom256(g, brightness) ==
    LET len == Len(activeCharSet(g))
    IN  IF g.invertBrightness
        THEN (brightness * len) \div (256 * Unit)
        ELSE ((256 * Unit - brightness) * len) \div (256 * Unit)

\* Math.floor(brightness / 256 * length), or of (255 - brightness)
RawCharIndex(g, brightness) ==
    LET len == Len(activeCharSet(g))
    IN  IF g.invertBrightness
        THEN (brightness * len) \div (256 * Unit)
        ELSE ((255 * Unit - brightness) * len) \div (256 * Unit)

\* a variant that divides by 255 and does not clamp
CharIndexOver255(g, brightness) ==
    LET len == Len(activeCharSet(g))
    IN  IF g.invertBrightness
        THEN (brightness * len) \div (255 * Unit)
        ELSE ((255 * Unit - brightness) * len) \div (255 * Unit)

\* the index after "Ensure index is within bounds"
CharIndex(g, brightness) ==
    Clamp(0, Len(activeCharSet(g)) - 1, RawCharIndex(g, brightness))

\* activeCharSet[charIndex]
CharAt(g, idx) == At(activeCharSet(g), idx)

----------------------------------------------------------------------------
(* Sharpening: applyUnsharpMask and applyGaussianBlur *)

kernel == << << 1, 2, 1 >>, << 2, 4, 2 >>, << 1, 2, 1 >> >>

kernelSum == 16

\* the sharpening strength "amount" = 0.8 = AmountNum / AmountDen
AmountNum == 4

AmountDen == 5

\* the sum of the loops over ky, kx for channel c of pixel (x, y)
KernelSum(px, w, x, y, c) ==
    LET term(ky, kx) ==
            At(px, ((y + ky) * w + (x + kx)) * 4 + c) * kernel[ky + 2][kx + 2]
    IN  term(-1, -1) + term(-1, 0) + term(-1, 1)
      + term(0, -1)  + term(0, 0)  + term(0, 1)
      + term(1, -1)  + term(1, 0)  + term(1, 1)

\* result is a new Uint8ClampedArray (all 0); the loops write the pixels with
\* 1 <= x < width - 1 and 1 <= y < height - 1 only
applyGaussianBlur(px, w, h) ==
    [i \in 1..Len(px) |->
        LET j == i - 1
            c == j % 4
            x == (j \div 4) % w
            y == (j \div 4) \div w
        IN  IF x >= 1 /\ x < w - 1 /\ y >= 1 /\ y < h - 1
            THEN IF c < 3
                 THEN ToUint8Clamp(KernelSum(px, w, x, y, c), kernelSum)
                 ELSE px[i]
            ELSE 0]

\* the unsharp mask, given the blurred copy: original + (original - blurred) * amount
\* on the channels R, G, B of every pixel
Unsharp(original, blur) ==
    [i \in 1..Len(original) |->
        IF (i - 1) % 4 < 3
        THEN ToUint8Clamp(AmountDen * original[i]
                            + (original[i] - blur[i]) * AmountNum, AmountDen)
        ELSE original[i]]

\* the canvas data after applyUnsharpMask
applyUnsharpMask(px, w, h) == Unsharp(px, applyGaussianBlur(px, w, h))

----------------------------------------------------------------------------
(* Dithering: applyFloydSteinbergDithering and addError *)

\* a variant that rounds the sum of the channels, not their mean
grayLevelOfSum(oldR, oldG, oldB) == ((oldR + oldG + oldB + 16) \div 32) * 32

\* Math.round((oldR + oldG + oldB) / 3 / 32) * 32; Math.round rounds a tie up
grayLevel(oldR, oldG, oldB) == ((oldR + oldG + oldB + 48) \div 96) * 32

\* addError: factor is sixteenths/16, the errors are in 1/Unit
addError(d, idx, errR, errG, errB, sixteenths) ==
    [d EXCEPT
        ![idx + 1] = ToUint8Clamp(@ * 16 * Unit + errR * sixteenths, 16 * Unit),
        ![idx + 2] = ToUint8Clamp(@ * 16 * Unit + errG * sixteenths, 16 * Unit),
        ![idx + 3] = ToUint8Clamp(@ * 16 * Unit + errB * sixteenths, 16 * Unit)]

\* a variant without the test x > 0 before the south-west neighbour
DitherPixelNoWestGuard(d, w, h, x, y, amount) ==
    LET idx  == (y * w + x) * 4
        oldR == At(d, idx)
        oldG == At(d, idx + 1)
        oldB == At(d, idx + 2)
        gray == grayLevel(oldR, oldG, oldB)
        d0   == [d EXCEPT ![idx + 1] = ToUint8Clamp(gray, 1),
                          ![idx + 2] = ToUint8Clamp(gray, 1),
                          ![idx + 3] = ToUint8Clamp(gray, 1)]
        errR == (oldR - gray) * amount
        errG == (oldG - gray) * amount
        errB == (oldB - gray) * amount
        d1   == IF x + 1 < w
                THEN addError(d0, idx + 4, errR, errG, errB, 7)
                ELSE d0
        d2   == IF y + 1 < h
                THEN addError(d1, idx - 4 + w * 4, errR, errG, errB, 3)
                ELSE d1
        d3   == IF y + 1 < h
                THEN addError(d2, idx + w * 4, errR, errG, errB, 5)
                ELSE d2
        d4   == IF y + 1 < h /\ x + 1 < w
                THEN addError(d3, idx + 4 + w * 4, errR, errG, errB, 1)
                ELSE d3
    IN  IF At(d, idx + 3) = 0 THEN d ELSE d4

\* the body of the loops over y, x for one pixel
DitherPixel(d, w, h, x, y, amount) ==
    LET idx  == (y * w + x) * 4
        oldR == At(d, idx)
        oldG == At(d, idx + 1)
        oldB == At(d, idx + 2)
        gray == grayLevel(oldR, oldG, oldB)
        d0   == [d EXCEPT ![idx + 1] = ToUint8Clamp(gray, 1),
                          ![idx + 2] = ToUint8Clamp(gray, 1),
                          ![idx + 3] = ToUint8Clamp(gray, 1)]
        errR == (oldR - gray) * amount
        errG == (oldG - gray) * amount
        errB == (oldB - gray) * amount
        d1   == IF x + 1 < w
                THEN addError(d0, idx + 4, errR, errG, errB, 7)
                ELSE d0
        d2   == IF y + 1 < h /\ x > 0
                THEN addError(d1, idx - 4 + w * 4, errR, errG, errB, 3)
                ELSE d1
        d3   == IF y + 1 < h
                THEN addError(d2, idx + w * 4, errR, errG, errB, 5)
                ELSE d2
        d4   == IF y + 1 < h /\ x + 1 < w
                THEN addError(d3, idx + 4 + w * 4, errR, errG, errB, 1)
                ELSE d3
    IN  IF At(d, idx + 3) = 0 THEN d ELSE d4

RECURSIVE DitherRange(_, _, _, _, _, _)
\* the passes of the loops over y, x for the raster indices lo .. hi - 1, in
\* raster order.  The range is split in halves and the first half is computed
\* (Len forces it) before the second starts, which keeps TLC's evaluation
\* shallow; the result is that of hi - lo passes in sequence.
DitherRange(d, w, h, amount, lo, hi) ==
    IF lo >= hi THEN d
    ELSE IF hi = lo + 1 THEN DitherPixel(d, w, h, lo % w, lo \div w, amount)
    ELSE LET mid   == (lo + hi) \div 2
             first == DitherRange(d, w, h, amount, lo, mid)
         IN  IF Len(first) = Len(d)
             THEN DitherRange(first, w, h, amount, mid, hi)
             ELSE first

\* "Create a copy to work with": data[i] = pixels[i] for every i
CopyOf(px) == SubSeq(px, 1, Len(px))

\* the array the call returns (pixels, overwritten with the working copy)
applyFloydSteinbergDithering(g, px, w, h) ==
    DitherRange(CopyOf(px), w, h, g.ditherAmount, 0, w * h)

----------------------------------------------------------------------------
(* convertImageToASCII *)

\* a variant whose weights sum to more than 1
LuminanceHeavyBlue(r, g, b) == (299 * r + 587 * g + 144 * b + 500) \div 1000

\* Math.round(0.299 * r + 0.587 * g + 0.114 * b).  Exact unless
\* 299 r + 587 g + 114 b = 500 (mod 1000), where the double sum lies within
\* an ulp of a tie; the model draws no such pixel (LuminanceTie).
Luminance(r, g, b) == (299 * r + 587 * g + 114 * b + 500) \div 1000

LuminanceTie(r, g, b) == (299 * r + 587 * g + 114 * b) % 1000 = 500

\* Math.floor(this.width * (image.height / image.width) * 0.5); image.width is
\* a power of two in the model, so the double quotient is exact
CanvasHeight(g, img) == (g.width * img.height) \div (2 * img.width)

\* the character of the opaque pixel with raster index p
PixelChar(g, px, p) ==
    LET brightness == Luminance(At(px, p * 4), At(px, p * 4 + 1), At(px, p * 4 + 2))
    IN  CharAt(g, CharIndex(g, applyContrastAndBrightness(g, brightness)))

\* what one pass of the loop over x appends to asciiArt, and the "\n" after it
TextRow(g, px, w, y) ==
    [k \in 1..w |->
        IF At(px, (y * w + k - 1) * 4 + 3) = 0
        THEN " "
        ELSE PixelChar(g, px, y * w + k - 1)] \o << "\n" >>

RECURSIVE TextRows(_, _, _, _, _)
\* asciiArt from row y on
TextRows(g, px, w, h, y) ==
    IF y >= h THEN << >>
    ELSE TextRow(g, px, w, y) \o TextRows(g, px, w, h, y + 1)

\* a variant that takes the colour from the image as it was drawn
SpanOfDrawn(g, px, p) ==
    [ textContent |-> PixelChar(g, px, p),
      color |-> << At(image.drawn, p * 4), At(image.drawn, p * 4 + 1),
                   At(image.drawn, p * 4 + 2) >> ]

\* the span of the opaque pixel with raster index p
Span(g, px, p) ==
    [ textContent |-> PixelChar(g, px, p),
      color |-> << At(px, p * 4), At(px, p * 4 + 1), At(px, p * 4 + 2) >> ]

\* the spans appended to lineSpan in row y: a transparent pixel leaves the
\* loop body at "continue", before any span is made
LineSpan(g, px, w, y) ==
    LET opaque == SelectSeq([k \in 1..w |-> y * w + k - 1],
                            LAMBDA p : At(px, p * 4 + 3) # 0)
    IN  [k \in 1..Len(opaque) |-> Span(g, px, opaque[k])]

\* the children of coloredAsciiArt: one lineSpan per row in colour mode
ColoredRows(g, px, w, h) ==
    IF g.colorMode /\ h > 0
    THEN [y \in 1..h |-> LineSpan(g, px, w, y - 1)]
    ELSE << >>

NoResult == [type |-> "none", text |-> << >>, children |-> << >>]

\* the canvas data after the preprocessing stages
Preprocessed(g, px, w, h) ==
    LET sharpened == IF g.applySharpening THEN applyUnsharpMask(px, w, h) ELSE px
    IN  IF g.applyDithering
        THEN applyFloydSteinbergDithering(g, sharpened, w, h)
        ELSE sharpened

\* return this.colorMode ? coloredAsciiArt : asciiArt
Returned(g, px, w, h) ==
    IF g.colorMode
    THEN [type |-> "element", text |-> << >>, children |-> ColoredRows(g, px, w, h)]
    ELSE [type |-> "string", text |-> TextRows(g, px, w, h, 0), children |-> << >>]

\* the value convertImageToASCII returns for the drawn canvas data
convertImageToASCII(g, img) ==
    LET h == CanvasHeight(g, img)
    IN  Returned(g, Preprocessed(g, img.drawn, g.width, h), g.width, h)

----------------------------------------------------------------------------
(* The inputs the model draws *)

\* canvases taller than this are not drawn
MaxHeight == 3

Black == << 0, 0, 0, 255 >>

White == << 255, 255, 255, 255 >>

Tint == << 200, 100, 50, 255 >>

\* a fully transparent pixel that still carries colour
Clear == << 90, 200, 30, 0 >>

PixelValues == { Black, Tint, Clear }

\* n pixels, all px
Uniform(n, px) == [i \in 1..(4 * n) |-> px[((i - 1) % 4) + 1]]

\* buf with the pixel of raster index p replaced by px
WithPixel(buf, p, px) ==
    [i \in 1..Len(buf) |-> IF (i - 1) \div 4 = p THEN px[((i - 1) % 4) + 1] ELSE buf[i]]

\* canvases of more pixels than this get their odd pixel at the end only
MaxMixed == 9

\* the first, the middle and the last pixel
OddPositions(n) == IF n <= MaxMixed THEN { 0, n \div 2, n - 1 } ELSE { n - 1 }

\* a background colour, with at most one pixel of another value
Buffers(w, h) ==
    { Uniform(w * h, bg) : bg \in PixelValues }
    \cup { WithPixel(Uniform(w * h, bg), p, px) :
              bg \in PixelValues, p \in OddPositions(w * h), px \in PixelValues }

\* natural sizes << width, height >> of the images
ImageSizes == { << 1, 2 >>, << 32, 1 >> }

\* the images whose canvas for generator g has 1..MaxHeight rows, with any
\* drawn content (decoding and resampling are the browser's)
ImagesFor(g) ==
    UNION { { [width |-> sz[1], height |-> sz[2], drawn |-> buf] :
                 buf \in Buffers(g.width, (g.width * sz[2]) \div (2 * sz[1])) } :
            sz \in { z \in ImageSizes :
                       /\ (g.width * z[2]) \div (2 * z[1]) >= 1
                       /\ (g.width * z[2]) \div (2 * z[1]) <= MaxHeight } }

Flag == { << FALSE >>, << TRUE >> }

PipelineOptions ==
    [ charSet            : { << >>, << << >> >>, << << "@", " " >> >> },
      width              : { << 0 >>, << 2 >>, << 3 >> },
      invertBrightness   : Flag,
      colorMode          : Flag,
      contrastFactor     : { << >>, << 2 * Unit >> },
      brightnessFactor   : { << >>, << 0 - Quarter >> },
      useDetailedCharSet : Flag,
      applyDithering     : Flag,
      applySharpening    : Flag,
      ditherAmount       : { << >>, << 0 >> } ]

NoCanvas == [width |-> 0, height |-> 0, data |-> << >>]

\* no promise has been made: calls counts the calls of resolve and reject
NoPromise == [state |-> "none", reason |-> "", calls |-> 0]

\* the page after DOMContentLoaded: no file picked (picked holds, per file
\* handed to processImageFile, whether it is an image), no FileReader at
\* work, preview hidden, currentImage null (0), nothing converted
NoPage ==
    [ picked       |-> << >>,
      reading      |-> { },
      preview      |-> 0,
      currentImage |-> 0,
      complete     |-> FALSE,
      alerted      |-> FALSE,
      lastRun      |-> << >>,
      output       |-> 0 ]

NoImage == [width |-> 1, height |-> 1, drawn |-> << >>]

----------------------------------------------------------------------------
(* Spec: one conversion, new ASCIIArtGenerator(options).convertImageToASCII(image) *)

\* the options that give a width are drawn before those that fall back on
\* the default width
Init ==
    /\ \/ options \in { o \in PipelineOptions : o.width # << 0 >> }
       \/ options \in { o \in PipelineOptions : o.width = << 0 >> }
    /\ gen = constructor(options)
    /\ image \in ImagesFor(gen)
    /\ canvas = NoCanvas
    /\ pixels = << >>
    /\ data = << >>
    /\ pos = 0
    /\ blurred = << >>
    /\ result = NoResult
    /\ value = 0
    /\ adjusted = 0
    /\ charIndex = 0
    /\ promise = NoPromise
    /\ page = NoPage
    /\ pc = "constructed"

Convert ==
    /\ pc = "constructed"
    /\ canvas' = [ width  |-> gen.width,
                   height |-> CanvasHeight(gen, image),
                   data   |-> Preprocessed(gen, image.drawn, gen.width,
                                           CanvasHeight(gen, image)) ]
    /\ result' = Returned(gen, canvas'.data, canvas'.width, canvas'.height)
    /\ pc' = "returned"
    /\ UNCHANGED << promise, page, options, gen, image, pixels, data, pos, blurred,
                    value, adjusted, charIndex >>

Next == Convert

Spec == Init /\ [][Next]_vars

----------------------------------------------------------------------------
(* The returned output read as a grid of glyphs *)

\* the 1-based positions of the "\n" in text
Newlines(text) == { i \in 1..Len(text) : text[i] = "\n" }

\* the lines of text, each ended by its "\n"
Lines(text) ==
    LET nl == Newlines(text)
        \* the position of the k-th "\n", 0 for k = 0
        at(k) == IF k = 0 THEN 0
                 ELSE CHOOSE i \in nl : Cardinality({ j \in nl : j <= i }) = k
    IN  [k \in 1..Cardinality(nl) |-> SubSeq(text, at(k - 1) + 1, at(k) - 1)]

\* the characters of the rows of a returned value: the lines of the string,
\* or the text of the spans of each row element
GlyphRows(res) ==
    IF res.type = "string"
    THEN Lines(res.text)
    ELSE [y \in 1..Len(res.children) |->
            [k \in 1..Len(res.children[y]) |-> res.children[y][k].textContent]]

\* the alpha of the drawn pixel in column x of row y
DrawnAlpha(x, y) == At(image.drawn, (y * gen.width + x) * 4 + 3)

\* the luminance of the model is that of the code: no opaque pixel that the
\* pixel loop reads is a rounding tie of the weighted sum
LuminanceExact ==
    pc = "returned" =>
        \A p \in 0..(canvas.width * canvas.height - 1) :
            At(canvas.data, p * 4 + 3) # 0 =>
                ~LuminanceTie(At(canvas.data, p * 4), At(canvas.data, p * 4 + 1),
                              At(canvas.data, p * 4 + 2))

----------------------------------------------------------------------------
(* Claims about the conversion as a whole *)

\* C1: converting the same buffer with the same config but the other value of
\* colorMode yields the same character at every (row, column) position.
C1_SameCharacters ==
    pc = "returned" =>
        GlyphRows(result)
            = GlyphRows(convertImageToASCII([gen EXCEPT !.colorMode = ~@], image))

\* C2: every pixel with alpha = 0 has a blank glyph at its own position in the
\* returned output, in every config.
C2_TransparentIsBlank ==
    pc = "returned" =>
        \A y \in 0..(canvas.height - 1) : \A x \in 0..(canvas.width - 1) :
            DrawnAlpha(x, y) = 0 =>
                /\ y + 1 <= Len(GlyphRows(result))
                /\ x + 1 <= Len(GlyphRows(result)[y + 1])
                /\ GlyphRows(result)[y + 1][x + 1] = " "

\* C3: the returned output has exactly height rows of exactly width glyphs.
C3_GridDimensions ==
    pc = "returned" =>
        /\ Len(GlyphRows(result)) = canvas.height
        /\ \A y \in 1..Len(GlyphRows(result)) :
              Len(GlyphRows(result)[y]) = canvas.width

\* the options ask for an empty palette or a non-positive width
BadConfig(o) ==
    \/ Given(o, "charSet") /\ o.charSet[1] = << >>
    \/ Given(o, "width") /\ o.width[1] <= 0

\* C4: a conversion asked for with an empty palette or a non-positive width
\* returns no glyph output at all.
C4_ConfigurationError == BadConfig(options) => result = NoResult

----------------------------------------------------------------------------
(* SpecTone: the passes of the pixel loop after the luminance is computed, *)
(* applyContrastAndBrightness and then the character index, for one pixel  *)

\* << charSet, useDetailedCharSet >> as given in the options
PaletteChoices ==
    { << cs, << FALSE >> >> :
        cs \in { << >>, << << "@", " " >> >>, << << "#" >> >>,
                 << << "#", "+", " " >> >> } }
    \cup { << << >>, << TRUE >> >> }

ToneOptions ==
    { With(NoOptions,
           [ charSet            |-> pal[1],
             useDetailedCharSet |-> pal[2],
             invertBrightness   |-> inv,
             contrastFactor     |-> con,
             brightnessFactor   |-> bri ]) :
        pal \in PaletteChoices,
        inv \in Flag,
        con \in { << >>, << 0 >>, << Half >>, << 2 * Unit >> },
        bri \in { << 0 >>, << Quarter >>, << 0 - Quarter >> } }

InitTone ==
    /\ options \in ToneOptions
    /\ gen = constructor(options)
    /\ value \in 0..255
    /\ adjusted = 0
    /\ charIndex = 0
    /\ promise = NoPromise
    /\ page = NoPage
    /\ image = NoImage
    /\ canvas = NoCanvas
    /\ pixels = << >>
    /\ data = << >>
    /\ pos = 0
    /\ blurred = << >>
    /\ result = NoResult
    /\ pc = "pixel"

\* brightness = this.applyContrastAndBrightness(brightness)
Adjust ==
    /\ pc = "pixel"
    /\ adjusted' = applyContrastAndBrightness(gen, value)
    /\ pc' = "adjusted"
    /\ UNCHANGED << promise, page, options, gen, image, canvas, pixels, data, pos, blurred,
                    result, value, charIndex >>

\* charIndex, from the two branches and the clamp
MapChar ==
    /\ pc = "adjusted"
    /\ charIndex' = CharIndex(gen, adjusted)
    /\ pc' = "mapped"
    /\ UNCHANGED << promise, page, options, gen, image, canvas, pixels, data, pos, blurred,
                    result, value, adjusted >>

NextTone == Adjust \/ MapChar

SpecTone == InitTone /\ [][NextTone]_vars

\* the elements of a sequence
Elements(seq) == { seq[i] : i \in 1..Len(seq) }

\* C5: the character index lies in [0, palette.length - 1] and the character
\* emitted is a member of the active palette, also at luminance 0 and 255.
C5_IndexInPalette ==
    pc = "mapped" =>
        /\ charIndex \in 0..(Len(activeCharSet(gen)) - 1)
        /\ CharAt(gen, charIndex) \in Elements(activeCharSet(gen))

C5_Witness ==
    /\ pc = "mapped"
    /\ adjusted = 255 * Unit
    /\ gen.invertBrightness
    /\ gen.useDetailedCharSet
    /\ charIndex = Len(DetailedCharSet) - 1

\* the luminances the one of the state is compared with: every whole
\* luminance 0..255 and every fraction within 1 of it
Comparands(lum) ==
    { k * Unit : k \in 0..255 }
    \cup { l \in (lum - Unit)..(lum + Unit) : l >= 0 /\ l <= 255 * Unit }

\* the index of the lower luminance against that of the higher one
InOrder(g, ofLower, ofHigher) ==
    IF g.invertBrightness THEN ofLower <= ofHigher ELSE ofLower >= ofHigher

\* C6: the index is monotonic in the adjusted luminance: not increasing
\* without invert, not decreasing with invert.
C6_Monotonic ==
    pc = "mapped" =>
        \A other \in Comparands(adjusted) :
            /\ adjusted <= other => InOrder(gen, charIndex, CharIndex(gen, other))
            /\ other <= adjusted => InOrder(gen, CharIndex(gen, other), charIndex)

C6_Witness ==
    /\ pc = "mapped"
    /\ ~gen.invertBrightness
    /\ adjusted < 255 * Unit
    /\ adjusted % Unit # 0
    /\ charIndex > CharIndex(gen, adjusted + 1)

\* C7: the character for luminance L with invert is the character for
\* 255 - L without invert; with the palette "@ " white and black get "@" and
\* " " without invert and " " and "@" with invert.
C7_InvertMirrors ==
    pc = "mapped" =>
        /\ gen.invertBrightness =>
              CharAt(gen, charIndex)
                = CharAt([gen EXCEPT !.invertBrightness = FALSE],
                         CharIndex([gen EXCEPT !.invertBrightness = FALSE],
                                   255 * Unit - adjusted))
        /\ ( /\ activeCharSet(gen) = << "@", " " >>
             /\ adjusted \in { 0, 255 * Unit } ) =>
              CharAt(gen, charIndex)
                = IF (adjusted = 255 * Unit) = gen.invertBrightness
                  THEN " " ELSE "@"

C7_Witness ==
    /\ pc = "mapped"
    /\ gen.invertBrightness
    /\ activeCharSet(gen) = << "@", " " >>
    /\ value = 255
    /\ adjusted = 255 * Unit
    /\ CharAt(gen, charIndex) = " "

\* C10: 128 is a fixed point of the adjustment for every contrast (0 given
\* included) at brightness 0, and every result lies in [0, 255].
C10_MidpointFixed ==
    pc # "pixel" =>
        /\ adjusted >= 0
        /\ adjusted <= 255 * Unit
        /\ (value = 128 /\ options.brightnessFactor = << 0 >>) =>
              adjusted = 128 * Unit

C10_Witness ==
    /\ pc = "adjusted"
    /\ value = 128
    /\ options.contrastFactor = << 0 >>
    /\ options.brightnessFactor = << 0 >>
    /\ adjusted = 128 * Unit

----------------------------------------------------------------------------
(* SpecDither: applyFloydSteinbergDithering(pixels, width, height), one    *)
(* pass of its loops over y, x at a time                                   *)

\* an opaque gray pixel
Gray(v) == << v, v, v, 255 >>

\* the gray levels 32 k within 0..255
GrayLevels == { 32 * k : k \in 0..7 }

DitherSizes == { << 1, 1 >>, << 1, 3 >>, << 3, 1 >>, << 2, 2 >>, << 3, 2 >> }

DitherPixelValues == { White, Tint, Clear }

DitherCanvases ==
    UNION { { [width |-> sz[1], height |-> sz[2], data |-> buf] :
                 buf \in { Uniform(sz[1] * sz[2], Gray(v)) : v \in GrayLevels }
                    \cup { Uniform(sz[1] * sz[2], bg) : bg \in DitherPixelValues }
                    \cup { WithPixel(Uniform(sz[1] * sz[2], bg), p, px) :
                             bg \in DitherPixelValues,
                             p \in OddPositions(sz[1] * sz[2]),
                             px \in DitherPixelValues } } :
            sz \in DitherSizes }

DitherOptions ==
    { With(NoOptions, [applyDithering |-> << TRUE >>, ditherAmount |-> amount]) :
        amount \in { << >>, << 0 >>, << Quarter >>, << Unit >> } }

InitDither ==
    /\ options \in DitherOptions
    /\ gen = constructor(options)
    /\ canvas \in DitherCanvases
    /\ pixels = canvas.data
    /\ data = << >>
    /\ pos = 0
    /\ image = NoImage
    /\ blurred = << >>
    /\ result = NoResult
    /\ value = 0
    /\ adjusted = 0
    /\ charIndex = 0
    /\ promise = NoPromise
    /\ page = NoPage
    /\ pc = "called"

\* "Create a copy to work with"
CopyIn ==
    /\ pc = "called"
    /\ data' = CopyOf(pixels)
    /\ pos' = 0
    /\ pc' = "loop"
    /\ UNCHANGED << promise, page, options, gen, image, canvas, pixels, blurred, result,
                    value, adjusted, charIndex >>

\* one pass of the loops, for the pixel of raster index pos
DitherStep ==
    /\ pc = "loop"
    /\ pos < canvas.width * canvas.height
    /\ data' = DitherPixel(data, canvas.width, canvas.height,
                           pos % canvas.width, pos \div canvas.width,
                           gen.ditherAmount)
    /\ pos' = pos + 1
    /\ UNCHANGED << promise, page, options, gen, image, canvas, pixels, blurred, result,
                    value, adjusted, charIndex, pc >>

\* "Copy back to original array" and return it
CopyBack ==
    /\ pc = "loop"
    /\ pos = canvas.width * canvas.height
    /\ pixels' = data
    /\ pc' = "dithered"
    /\ UNCHANGED << promise, page, options, gen, image, canvas, data, pos, blurred, result,
                    value, adjusted, charIndex >>

NextDither == CopyIn \/ DitherStep \/ CopyBack

SpecDither == InitDither /\ [][NextDither]_vars

\* the canvas held one opaque gray 32 k in every pixel when dithering began
UniformGray32 ==
    \E v \in GrayLevels :
        canvas.data = Uniform(canvas.width * canvas.height, Gray(v))

\* C8: dithering a uniform opaque gray buffer whose value is a multiple of 32
\* returns it unchanged, with any strength, and dithering the result again
\* returns it once more.
C8_DitherGray32Unchanged ==
    (pc = "dithered" /\ UniformGray32) =>
        /\ pixels = canvas.data
        /\ applyFloydSteinbergDithering(gen, pixels, canvas.width, canvas.height)
             = pixels

C8_Witness ==
    /\ pc = "dithered"
    /\ UniformGray32
    /\ canvas.width * canvas.height > 1
    /\ canvas.data[1] = 224
    /\ gen.ditherAmount = Unit
    /\ pixels = canvas.data

\* << r, g, b, alpha >> of pixel q of the array d
PixelAt(d, q) == << At(d, q * 4), At(d, q * 4 + 1), At(d, q * 4 + 2), At(d, q * 4 + 3) >>

\* C13: after dithering every opaque pixel has R = G = B equal to one of the 8
\* gray levels 0, 32, .., 224, for every input buffer and every strength.
C13_DitheredIsGray32 ==
    pc = "dithered" =>
        \A q \in 0..(canvas.width * canvas.height - 1) :
            PixelAt(pixels, q)[4] # 0 =>
                /\ PixelAt(pixels, q)[1] = PixelAt(pixels, q)[2]
                /\ PixelAt(pixels, q)[2] = PixelAt(pixels, q)[3]
                /\ PixelAt(pixels, q)[1] \in GrayLevels

\* C14: every pixel with alpha = 0 keeps its R, G, B and alpha through the
\* dithering: it is not quantized and receives no error from its neighbours.
C14_TransparentUntouched ==
    pc \in { "loop", "dithered" } =>
        \A q \in 0..(canvas.width * canvas.height - 1) :
            PixelAt(canvas.data, q)[4] = 0 =>
                PixelAt(IF pc = "loop" THEN data ELSE pixels, q)
                    = PixelAt(canvas.data, q)

\* the sixteenths of the error of the pixel at (x, y) that the classic weights
\* give the pixel at (qx, qy): east 7, south-west 3, south 5, south-east 1
Weight(x, y, qx, qy) ==
    IF qy = y /\ qx = x + 1 THEN 7
    ELSE IF qy = y + 1 /\ qx = x - 1 THEN 3
    ELSE IF qy = y + 1 /\ qx = x THEN 5
    ELSE IF qy = y + 1 /\ qx = x + 1 THEN 1
    ELSE 0

\* C15: a pass of the loops changes, besides its own pixel, only the east,
\* south-west, south and south-east neighbours that lie inside the canvas,
\* each by its weight 7/16, 3/16, 5/16, 1/16 of the error: no pixel visited
\* before changes again, nothing is written at the other end of a row or
\* outside the buffer, and the copy back returns the working copy as it is.
C15_ErrorOnlyForward ==
    [][ /\ (pc = "loop" /\ pos' = pos + 1) =>
            LET w    == canvas.width
                x    == pos % w
                y    == pos \div w
                old  == PixelAt(data, pos)
                gray == grayLevel(old[1], old[2], old[3])
            IN  /\ Len(data') = Len(data)
                /\ \A q \in 0..(w * canvas.height - 1) :
                      LET k == Weight(x, y, q % w, q \div w)
                      IN  /\ q < pos => PixelAt(data', q) = PixelAt(data, q)
                          /\ PixelAt(data', q)[4] = PixelAt(data, q)[4]
                          /\ (q # pos /\ (k = 0 \/ old[4] = 0)) =>
                                PixelAt(data', q) = PixelAt(data, q)
                          /\ (k > 0 /\ old[4] # 0) =>
                                \A c \in 1..3 :
                                    PixelAt(data', q)[c]
                                      = ToUint8Clamp(
                                            PixelAt(data, q)[c] * 16 * Unit
                                              + (old[c] - gray) * gen.ditherAmount * k,
                                            16 * Unit)
        /\ (pc = "loop" /\ pc' = "dithered") => pixels' = data
      ]_vars

\* after the first pixel of a 3 x 2 canvas: its east neighbour has received
\* error, the last pixel of its row has not
C15_Witness ==
    /\ pc = "loop"
    /\ pos = 1
    /\ canvas.width = 3
    /\ canvas.height = 2
    /\ PixelAt(pixels, 0) = Tint
    /\ gen.ditherAmount = Unit
    /\ PixelAt(data, 1) # PixelAt(pixels, 1)
    /\ PixelAt(data, 3) # PixelAt(pixels, 3)
    /\ PixelAt(data, 2) = PixelAt(pixels, 2)

\* C16: an option given inside its documented domain is used as given; with
\* ditherAmount 0 the dithering quantizes only and diffuses no error.
C16_ExplicitValueUsed ==
    (pc = "dithered" /\ Given(options, "ditherAmount")) =>
        /\ gen.ditherAmount = options.ditherAmount[1]
        /\ options.ditherAmount[1] = 0 =>
              \A q \in 0..(canvas.width * canvas.height - 1) :
                  LET old == PixelAt(canvas.data, q)
                      gray == ToUint8Clamp(grayLevel(old[1], old[2], old[3]), 1)
                  IN  PixelAt(pixels, q)
                        = IF old[4] = 0 THEN old ELSE << gray, gray, gray, old[4] >>

----------------------------------------------------------------------------
(* SpecBlur: applyUnsharpMask on the canvas, with the blurred copy that    *)
(* applyGaussianBlur hands back to it                                      *)

BlurSizes == { << 2, 2 >>, << 3, 3 >>, << 4, 3 >> }

BlurCanvases ==
    UNION { { [width |-> sz[1], height |-> sz[2], data |-> buf] :
                 buf \in Buffers(sz[1], sz[2])
                    \cup { Uniform(sz[1] * sz[2], White) } } :
            sz \in BlurSizes }

InitBlur ==
    /\ options = With(NoOptions, [applySharpening |-> << TRUE >>])
    /\ gen = constructor(options)
    /\ canvas \in BlurCanvases
    /\ pixels = canvas.data
    /\ blurred = << >>
    /\ data = << >>
    /\ pos = 0
    /\ image = NoImage
    /\ result = NoResult
    /\ value = 0
    /\ adjusted = 0
    /\ charIndex = 0
    /\ promise = NoPromise
    /\ page = NoPage
    /\ pc = "called"

\* const blurred = this.applyGaussianBlur(original, width, height)
Blur ==
    /\ pc = "called"
    /\ blurred' = applyGaussianBlur(pixels, canvas.width, canvas.height)
    /\ pc' = "blurred"
    /\ UNCHANGED << promise, page, options, gen, image, canvas, pixels, data, pos, result,
                    value, adjusted, charIndex >>

\* the loop over the pixels, and ctx.putImageData
Sharpen ==
    /\ pc = "blurred"
    /\ canvas' = [canvas EXCEPT !.data = Unsharp(pixels, blurred)]
    /\ pc' = "sharpened"
    /\ UNCHANGED << promise, page, options, gen, image, pixels, data, pos, blurred, result,
                    value, adjusted, charIndex >>

NextBlur == Blur \/ Sharpen

SpecBlur == InitBlur /\ [][NextBlur]_vars

\* pixel p of a canvas w wide and h high lies in the first or last row or column
OnBorder(p, w, h) ==
    \/ p % w = 0
    \/ p % w = w - 1
    \/ p \div w = 0
    \/ p \div w = h - 1

\* C9: the blurred copy equals the input in all four channels of every border
\* pixel, and in the alpha of every pixel.
C9_BorderCopied ==
    pc # "called" =>
        \A p \in 0..(canvas.width * canvas.height - 1) :
            /\ At(blurred, p * 4 + 3) = At(pixels, p * 4 + 3)
            /\ OnBorder(p, canvas.width, canvas.height) =>
                  \A c \in 0..3 : At(blurred, p * 4 + c) = At(pixels, p * 4 + c)

----------------------------------------------------------------------------
(* SpecLum: the brightness line of the pixel loop, for one opaque pixel    *)

\* Math.round of the double sum.  Where 299 r + 587 g + 114 b = 500 (mod 1000)
\* the double sum lies within an ulp of k + 0.5 and Math.round gives k or
\* k + 1 as the roundings of the three products and two additions fall;
\* tieUp says which.  Everywhere else the double sum is further from a tie
\* than its rounding error and Math.round gives the nearest integer.
LuminanceRounded(r, g, b, tieUp) ==
    IF LuminanceTie(r, g, b) /\ ~tieUp
    THEN (299 * r + 587 * g + 114 * b) \div 1000
    ELSE Luminance(r, g, b)

\* the channel values the pixel is drawn from
LumChannels == { 0, 1, 4, 12, 36, 127, 128, 250, 254, 255 }

InitLum ==
    /\ pixels \in { << r, g, b, 255 >> : r \in LumChannels, g \in LumChannels,
                                         b \in LumChannels }
    /\ options = NoOptions
    /\ gen = constructor(options)
    /\ value = 0
    /\ adjusted = 0
    /\ charIndex = 0
    /\ promise = NoPromise
    /\ page = NoPage
    /\ image = NoImage
    /\ canvas = NoCanvas
    /\ data = << >>
    /\ pos = 0
    /\ blurred = << >>
    /\ result = NoResult
    /\ pc = "sampled"

\* let brightness = Math.round(0.299 * r + 0.587 * g + 0.114 * b)
Measure ==
    /\ pc = "sampled"
    /\ \E tieUp \in BOOLEAN :
          value' = LuminanceRounded(pixels[1], pixels[2], pixels[3], tieUp)
    /\ pc' = "measured"
    /\ UNCHANGED << promise, page, options, gen, image, canvas, pixels, data, pos, blurred,
                    result, adjusted, charIndex >>

NextLum == Measure

SpecLum == InitLum /\ [][NextLum]_vars

\* the pixel px with channel c (1 = r, 2 = g, 3 = b) set to v
WithChannel(px, c, v) == [px EXCEPT ![c] = v]

\* C11: the luminance is non-decreasing in each of r, g and b with the other
\* two held fixed, and lies in [0, 255] for channel values in 0..255.
C11_LuminanceMonotoneInRange ==
    pc = "measured" =>
        /\ value \in 0..255
        /\ \A c \in 1..3 : \A v \in 0..255 : \A tieUp \in BOOLEAN :
              LET px    == WithChannel(pixels, c, v)
                  other == LuminanceRounded(px[1], px[2], px[3], tieUp)
              IN  /\ v > pixels[c] => other >= value
                  /\ v < pixels[c] => other <= value

\* a pixel whose weighted sum is the tie 22.5, measured as 22
C11_Witness ==
    /\ pc = "measured"
    /\ pixels = << 0, 36, 12, 255 >>
    /\ LuminanceTie(pixels[1], pixels[2], pixels[3])
    /\ value = 22

----------------------------------------------------------------------------
(* SpecPipeline: convertImageToASCII one stage at a time: drawImage, the   *)
(* sharpening, getImageData, the dithering, the pixel loop                 *)

StageOptions ==
    { With(NoOptions,
           [ width           |-> << w >>,
             colorMode       |-> col,
             applySharpening |-> sharpen,
             applyDithering  |-> dither,
             ditherAmount    |-> amount ]) :
        w \in { 2, 3 }, col \in Flag, sharpen \in Flag, dither \in Flag,
        amount \in { << >>, << Unit >> } }

InitPipeline ==
    /\ options \in StageOptions
    /\ gen = constructor(options)
    /\ image \in ImagesFor(gen)
    /\ canvas = NoCanvas
    /\ pixels = << >>
    /\ data = << >>
    /\ pos = 0
    /\ blurred = << >>
    /\ result = NoResult
    /\ value = 0
    /\ adjusted = 0
    /\ charIndex = 0
    /\ promise = NoPromise
    /\ page = NoPage
    /\ pc = "constructed"

\* canvas.width, canvas.height and ctx.drawImage
Draw ==
    /\ pc = "constructed"
    /\ canvas' = [ width  |-> gen.width,
                   height |-> CanvasHeight(gen, image),
                   data   |-> image.drawn ]
    /\ pc' = "drawn"
    /\ UNCHANGED << promise, page, options, gen, image, pixels, data, pos, blurred, result,
                    value, adjusted, charIndex >>

\* if (this.applySharpening) this.applyUnsharpMask(ctx, ...)
SharpenStage ==
    /\ pc = "drawn"
    /\ gen.applySharpening
    /\ blurred' = applyGaussianBlur(canvas.data, canvas.width, canvas.height)
    /\ canvas' = [canvas EXCEPT !.data = Unsharp(canvas.data, blurred')]
    /\ pc' = "sharpened"
    /\ UNCHANGED << promise, page, options, gen, image, pixels, data, pos, result, value,
                    adjusted, charIndex >>

\* let pixels = ctx.getImageData(...).data
GetImageData ==
    /\ \/ pc = "drawn" /\ ~gen.applySharpening
       \/ pc = "sharpened"
    /\ pixels' = canvas.data
    /\ pc' = "read"
    /\ UNCHANGED << promise, page, options, gen, image, canvas, data, pos, blurred, result,
                    value, adjusted, charIndex >>

\* if (this.applyDithering): pixels is overwritten with the working copy data,
\* and ctx.putImageData
DitherStage ==
    /\ pc = "read"
    /\ gen.applyDithering
    /\ data' = applyFloydSteinbergDithering(gen, pixels, canvas.width, canvas.height)
    /\ pixels' = data'
    /\ canvas' = [canvas EXCEPT !.data = data']
    /\ pc' = "dithered"
    /\ UNCHANGED << promise, page, options, gen, image, pos, blurred, result, value, adjusted,
                    charIndex >>

\* the loops over y, x and the return
PixelLoop ==
    /\ \/ pc = "read" /\ ~gen.applyDithering
       \/ pc = "dithered"
    /\ result' = Returned(gen, pixels, canvas.width, canvas.height)
    /\ pc' = "returned"
    /\ UNCHANGED << promise, page, options, gen, image, canvas, pixels, data, pos, blurred,
                    value, adjusted, charIndex >>

NextPipeline == Draw \/ SharpenStage \/ GetImageData \/ DitherStage \/ PixelLoop

SpecPipeline == InitPipeline /\ [][NextPipeline]_vars

\* the raster indices of the opaque pixels of row y, in order
OpaqueInRow(px, w, y) ==
    SelectSeq([k \in 1..w |-> y * w + k - 1], LAMBDA p : At(px, p * 4 + 3) # 0)

\* << r, g, b >> of pixel p
RGB(px, p) == << At(px, p * 4), At(px, p * 4 + 1), At(px, p * 4 + 2) >>

\* the drawn buffer after the enabled filters, sharpening before dithering
Filtered ==
    LET w == gen.width
        h == CanvasHeight(gen, image)
    IN  IF gen.applySharpening /\ gen.applyDithering
        THEN applyFloydSteinbergDithering(gen, applyUnsharpMask(image.drawn, w, h), w, h)
        ELSE IF gen.applySharpening THEN applyUnsharpMask(image.drawn, w, h)
        ELSE IF gen.applyDithering
        THEN applyFloydSteinbergDithering(gen, image.drawn, w, h)
        ELSE image.drawn

\* C12: sharpening (if enabled) runs first, dithering (if enabled) runs on the
\* sharpened buffer, glyph selection last; the character and, in colour mode,
\* the RGB of each opaque glyph come from the buffer after the enabled
\* filters, which is the input itself when no filter is enabled.
C12_StagesInOrder ==
    /\ pc = "sharpened" => data = << >>
    /\ (pc = "dithered" /\ gen.applySharpening) =>
          /\ blurred # << >>
          /\ data = applyFloydSteinbergDithering(
                        gen, Unsharp(image.drawn, blurred), canvas.width, canvas.height)
    /\ pc \in { "constructed", "drawn", "sharpened", "read", "dithered" } =>
          result = NoResult
    /\ pc = "returned" =>
          /\ pixels = Filtered
          /\ gen.colorMode =>
                /\ Len(result.children) = canvas.height
                /\ \A y \in 0..(canvas.height - 1) :
                      LET row    == result.children[y + 1]
                          opaque == OpaqueInRow(Filtered, canvas.width, y)
                      IN  /\ Len(row) = Len(opaque)
                          /\ \A k \in 1..Len(opaque) :
                                /\ row[k].textContent = PixelChar(gen, Filtered, opaque[k])
                                /\ row[k].color = RGB(Filtered, opaque[k])
          /\ ~gen.colorMode =>
                \A y \in 0..(canvas.height - 1) : \A x \in 0..(canvas.width - 1) :
                    At(Filtered, (y * canvas.width + x) * 4 + 3) # 0 =>
                        Lines(result.text)[y + 1][x + 1]
                            = PixelChar(gen, Filtered, y * canvas.width + x)

\* colour mode with both filters: a glyph whose colour is that of the
\* sharpened and dithered buffer, not that of the drawn pixel
C12_Witness ==
    /\ pc = "returned"
    /\ gen.colorMode
    /\ gen.applySharpening
    /\ gen.applyDithering
    /\ At(image.drawn, 3) # 0
    /\ Len(result.children[1]) > 0
    /\ result.children[1][1].color = RGB(pixels, 0)
    /\ result.children[1][1].color # RGB(image.drawn, 0)
    /\ pixels # applyUnsharpMask(
                    applyFloydSteinbergDithering(gen, image.drawn, canvas.width,
                                                 canvas.height),
                    canvas.width, canvas.height)

----------------------------------------------------------------------------
(* SpecURL: convertImageFromURL(imageUrl), its promise and the load and    *)
(* error events of the image                                               *)

\* what the image is when the URL cannot be loaded
Broken == [width |-> 0, height |-> 0, drawn |-> << >>]

\* an image so flat that the canvas gets no row: natural size 32 x 1
Flat == [width |-> 32, height |-> 1, drawn |-> << >>]

URLOptions ==
    { With(NoOptions,
           [ width           |-> << w >>,
             colorMode       |-> col,
             applySharpening |-> sharpen,
             applyDithering  |-> dither ]) :
        w \in { 2, 3 }, col \in Flag, sharpen \in Flag, dither \in Flag }

\* what the URL may hold for generator g
URLResources(g) == ImagesFor(g) \cup { Flat, Broken }

\* convertImageToASCII(img) ends in an exception: ctx.getImageData throws
\* IndexSizeError for a height of 0
Throws(g, img) == CanvasHeight(g, img) = 0

InitURL ==
    /\ options \in URLOptions
    /\ gen = constructor(options)
    /\ image \in URLResources(gen)
    /\ canvas = NoCanvas
    /\ pixels = << >>
    /\ data = << >>
    /\ pos = 0
    /\ blurred = << >>
    /\ result = NoResult
    /\ value = 0
    /\ adjusted = 0
    /\ charIndex = 0
    /\ promise = NoPromise
    /\ page = NoPage
    /\ pc = "constructed"

\* the call: new Promise(...), the handlers are set, img.src = imageUrl
ConvertImageFromURL ==
    /\ pc = "constructed"
    /\ promise' = [NoPromise EXCEPT !.state = "pending"]
    /\ pc' = "loading"
    /\ UNCHANGED << page, options, gen, image, canvas, pixels, data, pos,
                    blurred, result, value, adjusted, charIndex >>

\* img.onload: the conversion, then resolve(asciiArt) if it returned.  An
\* exception of the conversion leaves the handler before resolve.
OnLoad ==
    /\ pc = "loading"
    /\ image # Broken
    /\ IF Throws(gen, image)
       THEN UNCHANGED << promise, result, canvas >>
       ELSE /\ canvas' = [ width  |-> gen.width,
                           height |-> CanvasHeight(gen, image),
                           data   |-> Preprocessed(gen, image.drawn, gen.width,
                                                   CanvasHeight(gen, image)) ]
            /\ result' = Returned(gen, canvas'.data, canvas'.width, canvas'.height)
            /\ promise' = [promise EXCEPT !.state = "fulfilled",
                                          !.calls = @ + 1]
    /\ pc' = "loaded"
    /\ UNCHANGED << page, options, gen, image, pixels, data, pos, blurred,
                    value, adjusted, charIndex >>

\* img.onerror: reject(new Error('Failed to load image'))
OnError ==
    /\ pc = "loading"
    /\ image = Broken
    /\ promise' = [promise EXCEPT !.state = "rejected",
                                  !.reason = "Failed to load image",
                                  !.calls = @ + 1]
    /\ pc' = "failed"
    /\ UNCHANGED << page, options, gen, image, canvas, pixels, data, pos,
                    blurred, result, value, adjusted, charIndex >>

NextURL == ConvertImageFromURL \/ OnLoad \/ OnError

SpecURL == InitURL /\ [][NextURL]_vars

\* C17: once the load or error event of the image has been handled the
\* promise is settled, by exactly one call: rejected with 'Failed to load
\* image' after an error, fulfilled with the converted art or rejected after
\* a load, also when the conversion in the load handler fails.
C17_SettledOnce ==
    /\ pc = "failed" =>
          /\ promise.state = "rejected"
          /\ promise.reason = "Failed to load image"
          /\ promise.calls = 1
    /\ pc = "loaded" =>
          /\ promise.state \in { "fulfilled", "rejected" }
          /\ promise.calls = 1
          /\ promise.state = "fulfilled" =>
                result = convertImageToASCII(gen, image)

----------------------------------------------------------------------------
(* SpecPage: the demo page (src/aciiConverter.html): files picked or       *)
(* dropped, their FileReaders, the image loads and the Convert button.     *)
(* A file is known by its number in the order of the calls of              *)
(* processImageFile.                                                       *)

\* files handed to processImageFile in one run
MaxPicks == 3

\* processImageFile(file): a new FileReader starts reading the file
processImageFile(pg, isImage) ==
    [pg EXCEPT !.picked  = Append(@, isImage),
               !.reading = @ \cup { Len(pg.picked) + 1 }]

InitPage ==
    /\ page = NoPage
    /\ promise = NoPromise
    /\ options = NoOptions
    /\ gen = constructor(options)
    /\ image = NoImage
    /\ canvas = NoCanvas
    /\ pixels = << >>
    /\ data = << >>
    /\ pos = 0
    /\ blurred = << >>
    /\ result = NoResult
    /\ value = 0
    /\ adjusted = 0
    /\ charIndex = 0
    /\ pc = "page"

\* the change event of imageInput with a file chosen, of any type; without a
\* file the handler does nothing
ChangeInput ==
    /\ Len(page.picked) < MaxPicks
    /\ \E isImage \in BOOLEAN : page' = processImageFile(page, isImage)
    /\ UNCHANGED << promise, options, gen, image, canvas, pixels, data, pos,
                    blurred, result, value, adjusted, charIndex, pc >>

\* handleDrop with a first file whose type matches image.*; any other drop
\* leaves the page as it is
HandleDrop ==
    /\ Len(page.picked) < MaxPicks
    /\ page' = processImageFile(page, TRUE)
    /\ UNCHANGED << promise, options, gen, image, canvas, pixels, data, pos,
                    blurred, result, value, adjusted, charIndex, pc >>

\* reader.onload of one of the reads under way: the preview and a new
\* currentImage get the file's data URL; the new image has yet to load
ReaderLoad ==
    /\ \E f \in page.reading :
          page' = [page EXCEPT !.reading      = @ \ { f },
                               !.preview      = f,
                               !.currentImage = f,
                               !.complete     = FALSE]
    /\ UNCHANGED << promise, options, gen, image, canvas, pixels, data, pos,
                    blurred, result, value, adjusted, charIndex, pc >>

\* currentImage finishes loading (a file that is no image never does)
ImageLoad ==
    /\ page.currentImage # 0
    /\ ~page.complete
    /\ page.picked[page.currentImage]
    /\ page' = [page EXCEPT !.complete = TRUE]
    /\ UNCHANGED << promise, options, gen, image, canvas, pixels, data, pos,
                    blurred, result, value, adjusted, charIndex, pc >>

\* the click handler of convertBtn: the alert without a currentImage, else
\* convertImageToASCII(currentImage) and the output; on an image that has not
\* loaded the conversion throws (its height is NaN) and the output stays
ClickConvert ==
    /\ IF page.currentImage = 0
       THEN page' = [page EXCEPT !.alerted = TRUE]
       ELSE page' = [page EXCEPT
                        !.lastRun = << [ image    |-> page.currentImage,
                                         complete |-> page.complete ] >>,
                        !.output  = IF page.complete THEN page.currentImage ELSE @]
    /\ UNCHANGED << promise, options, gen, image, canvas, pixels, data, pos,
                    blurred, result, value, adjusted, charIndex, pc >>

NextPage == ChangeInput \/ HandleDrop \/ ReaderLoad \/ ImageLoad \/ ClickConvert

SpecPage == InitPage /\ [][NextPage]_vars

\* C18: once no file read is pending, the preview and currentImage are those
\* of the file picked last, in whatever order the reads completed; and the
\* conversion never runs on an image that has not loaded.
C18_LatestFileWins ==
    /\ (page.reading = { } /\ Len(page.picked) > 0) =>
          /\ page.preview = Len(page.picked)
          /\ page.currentImage = Len(page.picked)
    /\ page.lastRun # << >> => page.lastRun[1].complete

====
